---- MODULE Spec2Model ----
(***************************************************************************)
(* ini2json: the value recorder of src/ini2json.go (typedValues.Add, the   *)
(* bigFloat JSON adapter) and the driver loop of main that reads the input *)
(* files into a recorder and encodes it.                                   *)
(*                                                                         *)
(* A Go string is modelled as a sequence of one-character strings, so that *)
(* the parsers the code calls are computed character by character.         *)
(***************************************************************************)
EXTENDS Integers, Sequences, FiniteSets, TLC

\* ------------------------------------------------------------------ bounds
MaxLen == 3
MaxFiles == 2
MaxAdds == 3

\* --------------------------------------------------------------- characters
DigitChars == <<"0", "1", "2", "3", "4", "5", "6", "7", "8", "9">>
Digits == {DigitChars[i] : i \in 1..10}
DigitVal(c) == (CHOOSE i \in 1..10 : DigitChars[i] = c) - 1
HexDigits == Digits \cup {"a", "b", "c", "d", "e", "f", "A", "B", "C", "D", "E", "F"}
Signs == {"+", "-"}
WhiteSpace == {" ", "\t", "\n", "\r"}
ControlChars == {"\t", "\n", "\r", "\f"}

IsDigitAt(s, i) == i <= Len(s) /\ s[i] \in Digits

\* first index >= i of s that holds no digit
RECURSIVE DigitsEnd(_, _)
DigitsEnd(s, i) == IF IsDigitAt(s, i) THEN DigitsEnd(s, i + 1) ELSE i

\* the digits s[i..j-1] as numbers
DigitSeq(s, i, j) == [n \in 1..(j - i) |-> DigitVal(s[i + n - 1])]

RECURSIVE StripLeadingZeros(_)
StripLeadingZeros(ds) ==
  IF ds # <<>> /\ Head(ds) = 0 THEN StripLeadingZeros(Tail(ds)) ELSE ds

RECURSIVE StripTrailingZeros(_)
StripTrailingZeros(ds) ==
  IF ds # <<>> /\ ds[Len(ds)] = 0
    THEN StripTrailingZeros(SubSeq(ds, 1, Len(ds) - 1))
    ELSE ds

\* an integer as text, without a sign (strconv.AppendInt of a value >= 0)
RECURSIVE NatText(_)
NatText(n) ==
  IF n < 10 THEN <<DigitChars[n + 1]>>
  ELSE Append(NatText(n \div 10), DigitChars[(n % 10) + 1])

\* the value of a digit sequence (used for exponents only, which are short)
RECURSIVE NatOf(_)
NatOf(ds) == IF ds = <<>> THEN 0 ELSE 10 * NatOf(SubSeq(ds, 1, Len(ds) - 1)) + ds[Len(ds)]

\* ds * m for a digit sequence of unbounded length and 2 <= m <= 9
RECURSIVE MulCarry(_, _, _)
MulCarry(ds, m, carry) ==
  IF ds = <<>> THEN (IF carry = 0 THEN <<>> ELSE <<carry>>)
  ELSE LET p == ds[Len(ds)] * m + carry
       IN Append(MulCarry(SubSeq(ds, 1, Len(ds) - 1), m, p \div 10), p % 10)

RECURSIVE MulPow(_, _, _)
MulPow(ds, m, n) == IF n = 0 THEN ds ELSE MulPow(MulCarry(ds, m, 0), m, n - 1)

\* ------------------------------------------------- big.Int.SetString(s, 10)
\* The magnitude is a digit sequence of any length without leading zeros
\* (<<>> is zero): big.Int has no fixed width.
SignEnd(s) == IF Len(s) >= 1 /\ s[1] \in Signs THEN 2 ELSE 1

SetStringOk(s) ==
  LET i == SignEnd(s)
  IN IsDigitAt(s, i) /\ DigitsEnd(s, i) = Len(s) + 1

SetString(s) ==
  LET abs == StripLeadingZeros(DigitSeq(s, SignEnd(s), Len(s) + 1))
  IN [type |-> "*big.Int",
      neg |-> (abs # <<>> /\ s[1] = "-"),
      abs |-> abs]

\* ------------------------------- big.ParseFloat(s, 10, 256, big.ToNearestEven)
\* The working precision of the decimal step.
Prec == 256
\* Every decimal of at most ExactDigits significant digits (77 for 256 bits:
\* 10^77 < 2^256) is the shortest decimal that rounds to its own Prec-bit
\* binary value, so within that length the parsed value is identified by its
\* normalised decimal 0.mant * 10^exp.  The model's inputs stay within it, and
\* their exponents stay far inside big.Float's exponent range.
ExactDigits == (Prec * 30103) \div 100000

InfSpellings ==
  { <<"I", "n", "f">>, <<"i", "n", "f">>,
    <<"+", "I", "n", "f">>, <<"+", "i", "n", "f">>,
    <<"-", "I", "n", "f">>, <<"-", "i", "n", "f">> }

ExpChars == {"e", "E", "p", "P"}

\* Float.scan: [sign] mantissa [exponent]; the positions of the parts of s.
\* mantissa = digits "." [digits] | digits | "." digits
\* exponent = ("e"|"E"|"p"|"P") [sign] digits
\* m0: the mantissa's start, intEnd: after its integer digits, manEnd: after
\* its fraction, e0: the exponent's first digit, expEnd: after the exponent.
ScanResult(s, m0, intEnd, manEnd, e0, expEnd) ==
  LET hasDot == manEnd > intEnd
      hasExp == e0 > manEnd
      fcount == IF hasDot THEN manEnd - intEnd - 1 ELSE 0
      expAbs == IF hasExp THEN NatOf(DigitSeq(s, e0, expEnd)) ELSE 0
  IN [ok |-> (intEnd - m0) + fcount > 0 /\ (hasExp => expEnd > e0),
      end |-> expEnd,
      neg |-> (Len(s) >= 1 /\ s[1] = "-"),
      digits |-> DigitSeq(s, m0, intEnd)
                   \o (IF hasDot THEN DigitSeq(s, intEnd + 1, manEnd) ELSE <<>>),
      fcount |-> fcount,
      exp |-> IF hasExp /\ s[e0 - 1] = "-" THEN 0 - expAbs ELSE expAbs,
      ebase |-> IF hasExp /\ s[manEnd] \in {"p", "P"} THEN 2 ELSE 10]

ScanExponent(s, m0, intEnd, manEnd, e0) ==
  ScanResult(s, m0, intEnd, manEnd, e0,
             IF e0 > manEnd THEN DigitsEnd(s, e0) ELSE manEnd)

ScanFraction(s, m0, intEnd, manEnd) ==
  ScanExponent(s, m0, intEnd, manEnd,
               IF manEnd <= Len(s) /\ s[manEnd] \in ExpChars
                 THEN (IF manEnd + 1 <= Len(s) /\ s[manEnd + 1] \in Signs
                         THEN manEnd + 2 ELSE manEnd + 1)
                 ELSE manEnd)

ScanMantissa(s, m0, intEnd) ==
  ScanFraction(s, m0, intEnd,
               IF intEnd <= Len(s) /\ s[intEnd] = "."
                 THEN DigitsEnd(s, intEnd + 1) ELSE intEnd)

Scan(s) == ScanMantissa(s, SignEnd(s), DigitsEnd(s, SignEnd(s)))

\* the value  digits * 10^(-fcount) * ebase^exp  as a normalised decimal
Normalised(neg, scaled, fcount, shift) ==
  IF scaled = <<>>
    THEN [type |-> "*bigFloat", form |-> "zero", neg |-> neg,
          mant |-> <<>>, exp |-> 0]
    ELSE [type |-> "*bigFloat", form |-> "finite", neg |-> neg,
          mant |-> StripTrailingZeros(scaled),
          exp |-> Len(scaled) - fcount + shift]

Scaled(n, exp, ebase) ==
  IF ebase = 10 THEN n
  ELSE IF exp >= 0 THEN MulPow(n, 2, exp)
  ELSE MulPow(n, 5, 0 - exp)

Decimal(sc) ==
  Normalised(sc.neg, Scaled(StripLeadingZeros(sc.digits), sc.exp, sc.ebase),
             sc.fcount, IF sc.ebase = 10 \/ sc.exp < 0 THEN sc.exp ELSE 0)

ScanOk(sc, len) == sc.ok /\ sc.end = len + 1

ParseFloatOk(s) == s \in InfSpellings \/ ScanOk(Scan(s), Len(s))

ParseFloat(s) ==
  IF s \in InfSpellings
    THEN [type |-> "*bigFloat", form |-> "inf", neg |-> (s[1] = "-"),
          mant |-> <<>>, exp |-> 0]
    ELSE Decimal(Scan(s))

\* ---------------------------------------------------------- strconv.ParseBool
TrueSpellings ==
  { <<"1">>, <<"t">>, <<"T">>, <<"T", "R", "U", "E">>,
    <<"t", "r", "u", "e">>, <<"T", "r", "u", "e">> }
FalseSpellings ==
  { <<"0">>, <<"f">>, <<"F">>, <<"F", "A", "L", "S", "E">>,
    <<"f", "a", "l", "s", "e">>, <<"F", "a", "l", "s", "e">> }

ParseBoolOk(s) == s \in TrueSpellings \cup FalseSpellings

ParseBool(s) == [type |-> "bool", val |-> (s \in TrueSpellings)]

\* ------------------------------------------ big.Float.MarshalText: %g, -1
Max(a, b) == IF a > b THEN a ELSE b

\* decimal.at: digit i (from 0) of the mantissa as a character, "0" outside it
At(d, i) == IF 0 <= i /\ i < Len(d.mant) THEN DigitChars[d.mant[i + 1] + 1] ELSE "0"

\* %f: the integer part padded with zeros, then prec fraction digits
fmtF(prec, d) ==
  LET int == IF d.exp > 0 THEN [i \in 1..d.exp |-> At(d, i - 1)] ELSE <<"0">>
      frac == IF prec > 0
                THEN <<".">> \o [i \in 1..prec |-> At(d, d.exp + i - 1)]
                ELSE <<>>
  IN int \o frac

\* %e: d.ddddde+-dd, with at least two exponent digits
fmtE(prec, d) ==
  LET first == IF Len(d.mant) > 0 THEN At(d, 0) ELSE "0"
      more == IF prec > 0 THEN <<".">> \o [i \in 1..prec |-> At(d, i)] ELSE <<>>
      exp == IF Len(d.mant) > 0 THEN d.exp - 1 ELSE 0
      sign == IF exp < 0 THEN "-" ELSE "+"
      abs == IF exp < 0 THEN 0 - exp ELSE exp
      pad == IF abs < 10 THEN <<"0">> ELSE <<>>
  IN <<first>> \o more \o <<"e", sign>> \o pad \o NatText(abs)

\* Float.Append(buf, 'g', -1): the shortest decimal that identifies x
MarshalText(x) ==
  LET sign == IF x.neg THEN <<"-">> ELSE <<>>
      prec == Len(x.mant)
      exp == x.exp - 1
  IN IF x.form = "inf"
       THEN (IF x.neg THEN <<"-">> ELSE <<"+">>) \o <<"I", "n", "f">>
     ELSE IF exp < -4 \/ exp >= 6
       THEN sign \o fmtE(prec - 1, x)
     ELSE sign \o fmtF(Max(prec - x.exp, 0), x)

\* bigFloat.MarshalJSON
MarshalJSON(b) == MarshalText(b)

\* ------------------------------------- json.Unmarshal([]byte(s), &jsval)
\* The value decoded into an empty interface: nil, bool, float64, string,
\* []interface{} or map[string]interface{}.  A parser's result is
\* [ok, val, pos]: whether it accepted, the value, the index after it.
Nil == [type |-> "nil"]
Fail == [ok |-> FALSE, val |-> Nil, pos |-> 0]
Ok(v, p) == [ok |-> TRUE, val |-> v, pos |-> p]

RECURSIVE SkipWS(_, _)
SkipWS(s, i) == IF i <= Len(s) /\ s[i] \in WhiteSpace THEN SkipWS(s, i + 1) ELSE i

CharAt(s, i) == IF 1 <= i /\ i <= Len(s) THEN s[i] ELSE "EOF"

HasWord(s, i, w) == i + Len(w) - 1 <= Len(s) /\ SubSeq(s, i, i + Len(w) - 1) = w

\* a >= b for two digit sequences read as fractions 0.a and 0.b
RECURSIVE FracGE(_, _)
FracGE(a, b) ==
  IF b = <<>> THEN TRUE
  ELSE IF a = <<>> THEN StripLeadingZeros(b) = <<>>
  ELSE IF Head(a) # Head(b) THEN Head(a) > Head(b)
  ELSE FracGE(Tail(a), Tail(b))

\* strconv.ParseFloat(text, 64) of a JSON number: a range error above the
\* largest float64 (1.7976931348623158e308 rounds to infinity), zero below
\* the smallest
Float64(d) ==
  IF d.form = "finite"
       /\ (d.exp > 309
           \/ (d.exp = 309
               /\ FracGE(d.mant, <<1, 7, 9, 7, 6, 9, 3, 1, 3, 4, 8, 6, 2, 3, 1, 5, 8>>)))
    THEN [type |-> "rangeError"]
  ELSE IF d.form = "finite" /\ d.exp < -323
    THEN [type |-> "float64", form |-> "zero", neg |-> d.neg,
          mant |-> <<>>, exp |-> 0]
  ELSE [d EXCEPT !.type = "float64"]

ConvertNumber(text) == Float64(Decimal(Scan(text)))

\* number = ["-"] ("0" | digit1-9 digits) ["." digits] [("e"|"E") [sign] digits]
\* i0: after the sign, intEnd: after the integer part, fracEnd: after the
\* fraction, e0: the exponent's first digit, expEnd: after the exponent.
NumberResult(s, i, i0, intEnd, fracEnd, e0, expEnd) ==
  IF intEnd = i0 \/ fracEnd = intEnd + 1 \/ (e0 > fracEnd /\ expEnd = e0)
    THEN Fail
    ELSE Ok(ConvertNumber(SubSeq(s, i, expEnd - 1)), expEnd)

NumberExponent(s, i, i0, intEnd, fracEnd, e0) ==
  NumberResult(s, i, i0, intEnd, fracEnd, e0,
               IF e0 > fracEnd THEN DigitsEnd(s, e0) ELSE fracEnd)

NumberFraction(s, i, i0, intEnd, fracEnd) ==
  NumberExponent(s, i, i0, intEnd, fracEnd,
                 IF CharAt(s, fracEnd) \in {"e", "E"}
                   THEN (IF CharAt(s, fracEnd + 1) \in Signs
                           THEN fracEnd + 2 ELSE fracEnd + 1)
                   ELSE fracEnd)

NumberInteger(s, i, i0, intEnd) ==
  NumberFraction(s, i, i0, intEnd,
                 IF CharAt(s, intEnd) = "." THEN DigitsEnd(s, intEnd + 1) ELSE intEnd)

NumberSign(s, i, i0) ==
  NumberInteger(s, i, i0, IF CharAt(s, i0) = "0" THEN i0 + 1 ELSE DigitsEnd(s, i0))

ParseNumber(s, i) == NumberSign(s, i, IF CharAt(s, i) = "-" THEN i + 1 ELSE i)

\* the character an escape \c stands for; \b and \uXXXX as named tokens
Unescape(c) ==
  CASE c = "n" -> "\n" [] c = "t" -> "\t" [] c = "r" -> "\r" [] c = "f" -> "\f"
    [] c = "b" -> "\\b" [] OTHER -> c

\* the characters of a string literal from index i (after the opening quote)
RECURSIVE StringBody(_, _, _)
StringBody(s, i, acc) ==
  LET c == CharAt(s, i)
  IN IF c = "EOF" \/ c \in ControlChars THEN Fail
     ELSE IF c = "\"" THEN Ok([type |-> "string", val |-> acc], i + 1)
     ELSE IF c = "\\"
       THEN IF CharAt(s, i + 1) \in {"\"", "\\", "/", "b", "f", "n", "r", "t"}
              THEN StringBody(s, i + 2, Append(acc, Unescape(s[i + 1])))
            ELSE IF CharAt(s, i + 1) = "u" /\ i + 5 <= Len(s)
                    /\ \A j \in (i + 2)..(i + 5) : s[j] \in HexDigits
              THEN StringBody(s, i + 6,
                     Append(acc, "\\u" \o s[i + 2] \o s[i + 3] \o s[i + 4] \o s[i + 5]))
            ELSE Fail
     ELSE StringBody(s, i + 1, Append(acc, c))

RECURSIVE ParseValue(_, _)
RECURSIVE ParseElems(_, _, _)
RECURSIVE ParseMembers(_, _, _)

\* the value at index i, which holds no white space
ValueAt(s, i) ==
  IF HasWord(s, i, <<"n", "u", "l", "l">>) THEN Ok(Nil, i + 4)
  ELSE IF HasWord(s, i, <<"t", "r", "u", "e">>)
    THEN Ok([type |-> "bool", val |-> TRUE], i + 4)
  ELSE IF HasWord(s, i, <<"f", "a", "l", "s", "e">>)
    THEN Ok([type |-> "bool", val |-> FALSE], i + 5)
  ELSE IF CharAt(s, i) = "\"" THEN StringBody(s, i + 1, <<>>)
  ELSE IF CharAt(s, i) = "-" \/ CharAt(s, i) \in Digits THEN ParseNumber(s, i)
  ELSE IF CharAt(s, i) = "["
    THEN IF CharAt(s, SkipWS(s, i + 1)) = "]"
           THEN Ok([type |-> "[]interface{}", val |-> <<>>], SkipWS(s, i + 1) + 1)
           ELSE ParseElems(s, i + 1, <<>>)
  ELSE IF CharAt(s, i) = "{"
    THEN IF CharAt(s, SkipWS(s, i + 1)) = "}"
           THEN Ok([type |-> "map[string]interface{}", val |-> <<>>],
                   SkipWS(s, i + 1) + 1)
           ELSE ParseMembers(s, i + 1, <<>>)
  ELSE Fail

\* a value starting at index i, after white space
ParseValue(s, i) == ValueAt(s, SkipWS(s, i))

\* after the element e of an array: a comma and more, or the closing bracket
AfterElem(s, acc, e, j) ==
  IF CharAt(s, j) = "," THEN ParseElems(s, j + 1, Append(acc, e.val))
  ELSE IF CharAt(s, j) = "]"
    THEN Ok([type |-> "[]interface{}", val |-> Append(acc, e.val)], j + 1)
  ELSE Fail

Elem(s, acc, e) == IF e.ok THEN AfterElem(s, acc, e, SkipWS(s, e.pos)) ELSE Fail

\* the elements of an array from index i, up to its closing bracket
ParseElems(s, i, acc) == Elem(s, acc, ParseValue(s, i))

\* after the member k: e of an object: a comma and more, or the closing
\* brace; a repeated key keeps its last value
AfterMember(s, acc, j) ==
  IF CharAt(s, j) = "," THEN ParseMembers(s, j + 1, acc)
  ELSE IF CharAt(s, j) = "}"
    THEN Ok([type |-> "map[string]interface{}", val |-> acc], j + 1)
  ELSE Fail

Member(s, acc, k, e) ==
  IF e.ok THEN AfterMember(s, (k.val.val :> e.val) @@ acc, SkipWS(s, e.pos)) ELSE Fail

MemberColon(s, acc, k, c) ==
  IF CharAt(s, c) = ":" THEN Member(s, acc, k, ParseValue(s, c + 1)) ELSE Fail

MemberKey(s, acc, k) ==
  IF k.ok THEN MemberColon(s, acc, k, SkipWS(s, k.pos)) ELSE Fail

MemberStart(s, acc, k0) ==
  IF CharAt(s, k0) = "\"" THEN MemberKey(s, acc, StringBody(s, k0 + 1, <<>>)) ELSE Fail

\* the members of an object from index i, up to its closing brace
ParseMembers(s, i, acc) == MemberStart(s, acc, SkipWS(s, i))

\* checkValid and the decoded tree: one JSON value with nothing but white
\* space around it
Whole(s, r) == IF r.ok /\ SkipWS(s, r.pos) = Len(s) + 1 THEN r ELSE Fail

Parse(s) == Whole(s, ParseValue(s, 1))

\* json.Valid: what the encoder requires of a Marshaler's output
Valid(s) == Parse(s).ok

\* whether decoding the tree meets a number no float64 holds
RECURSIVE HasRangeError(_)
HasRangeError(n) ==
  CASE n.type = "rangeError" -> TRUE
    [] n.type = "[]interface{}" -> \E i \in 1..Len(n.val) : HasRangeError(n.val[i])
    [] n.type = "map[string]interface{}" -> \E k \in DOMAIN n.val : HasRangeError(n.val[k])
    [] OTHER -> FALSE

\* json.Unmarshal into an empty interface: a syntax error or a number out of
\* range is an error
Decoded(r) == IF r.ok /\ ~HasRangeError(r.val) THEN r ELSE Fail

Unmarshal(s) == Decoded(Parse(s))

\* ------------------------------------------------------------ the recorders
\* A recorder is [rec, m]: its dynamic type behind ini.Recorder and its map
\* from key to the sequence of values recorded under it.
newRawValues == [rec |-> "ini.Values", m |-> <<>>]

newTypedValues == [rec |-> "typedValues", m |-> <<>>]

\* FromJSON without its else branch: a rejected value leaves jsval nil
FromJSONNoFallback(value, r) == r.val

\* the last two branches: the JSON value when json.Unmarshal returns nil,
\* else the string itself
FromJSON(value, r) == IF r.ok THEN r.val ELSE [type |-> "string", val |-> value]

\* Coerce with the boolean check moved before the integer check
CoerceBoolFirst(value) ==
  IF ParseBoolOk(value) THEN ParseBool(value)
  ELSE IF SetStringOk(value) THEN SetString(value)
  ELSE IF ParseFloatOk(value) THEN ParseFloat(value)
  ELSE FromJSON(value, Unmarshal(value))

\* the element typedValues.Add stores for a raw value: the if/else chain
Coerce(value) ==
  IF SetStringOk(value) THEN SetString(value)
  ELSE IF ParseFloatOk(value) THEN ParseFloat(value)
  ELSE IF ParseBoolOk(value) THEN ParseBool(value)
  ELSE FromJSON(value, Unmarshal(value))

\* AppendTo as v[key] = []interface{}{x}: the key's earlier values are lost
AppendToOverwrite(m, key, x) == (key :> <<x>>) @@ m

\* AppendTo putting the new element first
AppendToFront(m, key, x) ==
  IF key \in DOMAIN m THEN [m EXCEPT ![key] = <<x>> \o @]
  ELSE (key :> <<x>>) @@ m

\* v[key] = append(v[key], x): a missing key reads as the empty sequence
AppendTo(m, key, x) ==
  IF key \in DOMAIN m THEN [m EXCEPT ![key] = Append(@, x)]
  ELSE (key :> <<x>>) @@ m

\* Add returning early on an empty value
AddSkipEmpty(v, key, value) ==
  IF value = <<>> THEN v ELSE AppendTo(v, key, Coerce(value))

\* typedValues.Add
Add(v, key, value) == AppendTo(v, key, Coerce(value))

\* ini.Values.Add: the raw recorder keeps the text
ValuesAdd(v, key, value) == AppendTo(v, key, [type |-> "string", val |-> value])

\* dest.Add(key, value) through the ini.Recorder interface
RecorderAdd(dest, key, value) ==
  IF dest.rec = "typedValues"
    THEN [dest EXCEPT !.m = Add(dest.m, key, value)]
    ELSE [dest EXCEPT !.m = ValuesAdd(dest.m, key, value)]

\* whether json.Marshal accepts one stored element: a Marshaler's output
\* must be valid JSON
MarshalOk(x) == x.type = "*bigFloat" => Valid(MarshalJSON(x))

\* enc.Encode(values) succeeds
EncodeOk(c) ==
  \A k \in DOMAIN c.m : \A i \in 1..Len(c.m[k]) : MarshalOk(c.m[k][i])

\* ------------------------------------------------------------------ inputs
\* the keys the reader hands to Add; the empty key is one of them
Keys == {<<>>, <<"k">>}

\* values the reader hands to Add in the driver: an integer, a spelling of
\* infinity, the empty string
DriverValues == { <<"7">>, <<"i", "n", "f">>, <<>> }

\* every string of at most MaxLen characters over Alphabet
Alphabet == {"0", "1", "-", "+", ".", "e", "t", "I", "n", "f", "[", "]", " "}

Strings(n) == UNION {[1..m -> Alphabet] : m \in 0..n}

\* the strings the specification names, and further spellings of each shape
Samples ==
  { <<"1", "e", "1", "0">>, <<"t", "r", "u", "e">>, <<"f", "a", "l", "s", "e">>,
    <<"T", "r", "u", "e">>, <<"0", "x", "1", "0">>, <<"n", "u", "l", "l">>,
    <<"[", "1", ",", "2", "]">>, <<"3", ".", "1", "4">>, <<"-", "0", ".", "5">>,
    <<"8", "0", "8", "0">>, <<"+", "I", "n", "f">>, <<"-", "i", "n", "f">>,
    <<"1", "p", "3">>, <<"1", "P", "-", "2">>, <<"1", "E", "-", "7">>,
    <<"1", "e", "9", "9", "9">>, <<" ", "1", "e", "9", "9", "9">>,
    <<" ", "1", ".", "5", "e", "3">>, <<" ", "t", "r", "u", "e">>,
    <<"\"", "a", "\\", "n", "\"">>, <<"\"", "a">>,
    <<"{", "\"", "a", "\"", ":", "[", "]", "}">>,
    <<"{", "\"", "a", "\"", ":", "1", "e", "9", "9", "9", "}">>,
    <<"1", "2", "3", "4", "5", "6", "7", "8", "9", "0", "1", "2", "3", "4", "5",
      "6", "7", "8", "9", "0", "1", "2", "3", "4", "5", "6", "7", "8", "9", "0">>,
    <<"0", ".", "1", "2", "3", "4", "5", "6", "7", "8", "9", "0", "1", "2", "3",
      "4", "5", "6", "7", "8", "9", "0", "1", "2", "3", "4", "5", "6", "7", "8",
      "9", "0", "1", "2", "3", "4", "5", "6", "7", "8", "9", "1">> }

Inputs == Strings(MaxLen) \cup Samples

\* ------------------------------------------------------------------- state
VARIABLES
  raw,     \* the -r flag
  merge,   \* the -m flag
  nargs,   \* len(args), after the default of one path
  idx,     \* the index in args of the path the loop is at
  pc,      \* where main is: read, encode, final, done, or a fatal exit
  colls,   \* every recorder newValues() returned, in order; values is the last
  adds,    \* per recorder, the (key, value) pairs of the Add calls made on it
  calls,   \* per path, the (key, value) pairs the reader passed to Add
  encs,    \* the index in colls of each recorder handed to enc.Encode
  out      \* the documents written to standard output, in order

vars == <<raw, merge, nargs, idx, pc, colls, adds, calls, encs, out>>

\* newValues never set from the -r flag
newValuesTypedOnly == newTypedValues

\* newValues, as set from the -r flag
newValues == IF raw THEN newRawValues ELSE newTypedValues

values == colls[Len(colls)]

RECURSIVE SumLen(_)
SumLen(ss) == IF ss = <<>> THEN 0 ELSE Len(Head(ss)) + SumLen(Tail(ss))

\* main, from values := newValues() on: the flags are parsed and valid
Init ==
  /\ raw \in BOOLEAN
  /\ merge \in BOOLEAN
  /\ nargs \in 1..MaxFiles
  /\ idx = 1
  /\ pc = "read"
  /\ colls = <<newValues>>
  /\ adds = <<(<<>>)>>
  /\ calls = [i \in 1..nargs |-> <<>>]
  /\ encs = <<>>
  /\ out = <<>>

\* rd.Read hands one more key and value of the current path to dest.Add
ReadAdd(vals, limit) ==
  /\ pc = "read"
  /\ SumLen(calls) < limit
  /\ \E key \in Keys, value \in vals :
       /\ colls' = [colls EXCEPT ![Len(colls)] = RecorderAdd(@, key, value)]
       /\ adds' = [adds EXCEPT ![Len(adds)] = Append(@, <<key, value>>)]
       /\ calls' = [calls EXCEPT ![idx] = Append(@, <<key, value>>)]
  /\ UNCHANGED <<raw, merge, nargs, idx, pc, encs, out>>

\* read returns an error (the path cannot be opened, or the text is not
\* INI): log.Fatalf
ReadFail ==
  /\ pc = "read"
  /\ pc' = "fatalParse"
  /\ UNCHANGED <<raw, merge, nargs, idx, colls, adds, calls, encs, out>>

\* read returns nil: with -m on to the next path, or to the final Encode
\* after the last; without -m to this path's Encode
ReadEOF ==
  /\ pc = "read"
  /\ IF merge
       THEN IF idx < nargs
              THEN idx' = idx + 1 /\ pc' = "read"
              ELSE idx' = idx /\ pc' = "final"
       ELSE idx' = idx /\ pc' = "encode"
  /\ UNCHANGED <<raw, merge, nargs, colls, adds, calls, encs, out>>

\* EncodeFile without values = newValues(): the next path is read into the
\* recorder just encoded
EncodeFileNoReset ==
  /\ pc = "encode"
  /\ encs' = Append(encs, Len(colls))
  /\ IF EncodeOk(colls[Len(colls)])
       THEN /\ out' = Append(out, [coll |-> Len(colls), doc |-> colls[Len(colls)].m])
            /\ IF idx < nargs
                 THEN idx' = idx + 1 /\ pc' = "read"
                 ELSE idx' = idx /\ pc' = "done"
       ELSE /\ pc' = "fatalEncode"
            /\ UNCHANGED <<out, idx>>
  /\ UNCHANGED <<raw, merge, nargs, colls, adds, calls>>

\* without -m: enc.Encode(values), then values = newValues() and on to the
\* next path, or return after the last
EncodeFile ==
  /\ pc = "encode"
  /\ encs' = Append(encs, Len(colls))
  /\ IF EncodeOk(values)
       THEN /\ out' = Append(out, [coll |-> Len(colls), doc |-> values.m])
            /\ colls' = Append(colls, newValues)
            /\ adds' = Append(adds, <<>>)
            /\ IF idx < nargs
                 THEN idx' = idx + 1 /\ pc' = "read"
                 ELSE idx' = idx /\ pc' = "done"
       ELSE /\ pc' = "fatalEncode"
            /\ UNCHANGED <<out, colls, adds, idx>>
  /\ UNCHANGED <<raw, merge, nargs, calls>>

\* with -m: the one enc.Encode(values) after the loop
EncodeFinal ==
  /\ pc = "final"
  /\ encs' = Append(encs, Len(colls))
  /\ IF EncodeOk(values)
       THEN out' = Append(out, [coll |-> Len(colls), doc |-> values.m]) /\ pc' = "done"
       ELSE out' = out /\ pc' = "fatalFinal"
  /\ UNCHANGED <<raw, merge, nargs, idx, colls, adds, calls>>

Next ==
  \/ ReadAdd(DriverValues, MaxAdds)
  \/ ReadFail
  \/ ReadEOF
  \/ EncodeFile
  \/ EncodeFinal

Spec == Init /\ [][Next]_vars

\* One path read in typed mode without -m, and one Add of any input string:
\* the coercion of every string, and its encoding.
InitCoerce ==
  /\ raw = FALSE
  /\ merge = FALSE
  /\ nargs = 1
  /\ idx = 1
  /\ pc = "read"
  /\ colls = <<newValues>>
  /\ adds = <<(<<>>)>>
  /\ calls = <<(<<>>)>>
  /\ encs = <<>>
  /\ out = <<>>

NextCoerce ==
  \/ ReadAdd(Inputs, 1)
  \/ ReadEOF
  \/ EncodeFile

SpecCoerce == InitCoerce /\ [][NextCoerce]_vars

\* ---------------------------------------------------------------- helpers
\* the sequence recorded under key k; a missing key reads as empty
Recorded(m, k) == IF k \in DOMAIN m THEN m[k] ELSE <<>>

\* the values of the calls of log made with key k, in call order
RECURSIVE ValuesFor(_, _)
ValuesFor(log, k) ==
  IF log = <<>> THEN <<>>
  ELSE IF Head(log)[1] = k THEN <<Head(log)[2]>> \o ValuesFor(Tail(log), k)
  ELSE ValuesFor(Tail(log), k)

KeysOf(log) == {log[p][1] : p \in 1..Len(log)}

\* the number of elements a recorder holds
RECURSIVE Stored(_, _)
Stored(m, ks) ==
  IF ks = {} THEN 0
  ELSE LET k == CHOOSE x \in ks : TRUE IN Len(m[k]) + Stored(m, ks \ {k})

RECURSIVE TotalStored(_)
TotalStored(cs) ==
  IF cs = <<>> THEN 0 ELSE Stored(Head(cs).m, DOMAIN Head(cs).m) + TotalStored(Tail(cs))

\* the recorder a log of Add calls builds from an empty recorder rec0
RECURSIVE Replay(_, _)
Replay(rec0, log) ==
  IF log = <<>> THEN rec0
  ELSE RecorderAdd(Replay(rec0, SubSeq(log, 1, Len(log) - 1)),
                   log[Len(log)][1], log[Len(log)][2])

RECURSIVE Flatten(_)
Flatten(ss) == IF ss = <<>> THEN <<>> ELSE Head(ss) \o Flatten(Tail(ss))

IsPrefix(a, b) == Len(a) <= Len(b) /\ SubSeq(b, 1, Len(a)) = a

\* every (recorder index, key, position, raw value) of an element stored by a
\* typed recorder: the position-th call made with that key
CallsOn(i) ==
  UNION { { <<i, k, n>> : n \in 1..Len(ValuesFor(adds[i], k)) } : k \in KeysOf(adds[i]) }

TypedCalls ==
  { c \in UNION { CallsOn(i) : i \in 1..Len(adds) } :
      /\ colls[c[1]].rec = "typedValues"
      /\ c[3] <= Len(Recorded(colls[c[1]].m, c[2])) }

ValueOf(c) == ValuesFor(adds[c[1]], c[2])[c[3]]
ElementOf(c) == colls[c[1]].m[c[2]][c[3]]

\* -------------------------------------------------------------------- C1
\* the five checks of the priority order, and what each one stores
Accepts(n, s) ==
  CASE n = 1 -> SetStringOk(s)
    [] n = 2 -> ParseFloatOk(s)
    [] n = 3 -> ParseBoolOk(s)
    [] n = 4 -> Unmarshal(s).ok
    [] OTHER -> TRUE

Stores(n, s) ==
  CASE n = 1 -> SetString(s)
    [] n = 2 -> ParseFloat(s)
    [] n = 3 -> ParseBool(s)
    [] n = 4 -> Unmarshal(s).val
    [] OTHER -> [type |-> "string", val |-> s]

FirstAccepting(s) ==
  CHOOSE n \in 1..5 : Accepts(n, s) /\ \A m \in 1..(n - 1) : ~Accepts(m, s)

\* C1: for every raw value, typedValues.Add stores exactly one element, the
\* one of the first check that accepts the whole string in the order integer,
\* decimal, boolean, JSON, string; "1" and "0" are stored as integers, "1e10"
\* as a decimal, "true" as a boolean.
C1_FirstMatchWins ==
  /\ \A i \in 1..Len(colls) :
       colls[i].rec = "typedValues" =>
         \A k \in KeysOf(adds[i]) :
           Len(Recorded(colls[i].m, k)) = Len(ValuesFor(adds[i], k))
  /\ \A c \in TypedCalls :
       /\ ElementOf(c) = Stores(FirstAccepting(ValueOf(c)), ValueOf(c))
       /\ ValueOf(c) \in {<<"1">>, <<"0">>} => ElementOf(c).type = "*big.Int"
       /\ ValueOf(c) = <<"1", "e", "1", "0">> => ElementOf(c).type = "*bigFloat"
       /\ ValueOf(c) = <<"t", "r", "u", "e">> => ElementOf(c) = ParseBool(ValueOf(c))

\* "1", which the integer, decimal, boolean and JSON checks all accept, has
\* been stored
C1_Witness ==
  \E c \in TypedCalls :
    /\ ValueOf(c) = <<"1">>
    /\ \A n \in 1..4 : Accepts(n, ValueOf(c))
    /\ ElementOf(c).type = "*big.Int"

\* -------------------------------------------------------------------- C4
IsJSONNumber(text) == ParseNumber(text, 1).ok /\ ParseNumber(text, 1).pos = Len(text) + 1

\* C4: for every value the decimal step stores, bigFloat.MarshalJSON returns
\* a syntactically valid JSON number, so encoding never fails because of a
\* stored decimal.
C4_MarshalJSONIsNumber ==
  /\ \A c \in TypedCalls :
       ElementOf(c).type = "*bigFloat" => IsJSONNumber(MarshalJSON(ElementOf(c)))
  /\ pc \notin {"fatalEncode", "fatalFinal"}

\* the part of C4 that holds: every finite stored decimal marshals to a JSON
\* number
FiniteDecimalIsNumber ==
  \A c \in TypedCalls :
    ElementOf(c).type = "*bigFloat" /\ ElementOf(c).form # "inf"
      => IsJSONNumber(MarshalJSON(ElementOf(c)))

\* -------------------------------------------------------------------- C5
\* C5: a value all four parsers reject is stored as a string equal to the
\* input; "0x10" and "" are stored as themselves, "null" as JSON null and
\* "[1,2]" as the JSON array [1,2].
C5_StringFallback ==
  \A c \in TypedCalls :
    LET s == ValueOf(c)
        x == ElementOf(c)
    IN /\ (\A n \in 1..4 : ~Accepts(n, s)) => x = [type |-> "string", val |-> s]
       /\ s = <<"0", "x", "1", "0">> => x = [type |-> "string", val |-> s]
       /\ s = <<>> => x = [type |-> "string", val |-> <<>>]
       /\ s = <<"n", "u", "l", "l">> => x = Nil
       /\ s = <<"[", "1", ",", "2", "]">> =>
            /\ x.type = "[]interface{}"
            /\ Len(x.val) = 2
            /\ \A j \in 1..2 : x.val[j] = [type |-> "float64", form |-> "finite",
                                           neg |-> FALSE, mant |-> <<j>>, exp |-> 1]

\* "0x10", which all four parsers reject, has been stored
C5_Witness ==
  \E c \in TypedCalls :
    /\ ValueOf(c) = <<"0", "x", "1", "0">>
    /\ \A n \in 1..4 : ~Accepts(n, ValueOf(c))
    /\ ElementOf(c).type = "string"

\* -------------------------------------------------------------------- C8
\* the value a JSON numeric text denotes, as a normalised decimal without its
\* Go type; a zero has no sign
Denotes(text) ==
  LET d == Decimal(Scan(text))
  IN [form |-> d.form, neg |-> (d.neg /\ d.form # "zero"), mant |-> d.mant, exp |-> d.exp]

\* C8: for every string the decimal step accepts and the integer step does
\* not, the JSON numeric text of the stored decimal denotes the mathematical
\* value of the string (inputs of at most ExactDigits significant digits,
\* which the 40-digit decimal is).
C8_TextDenotesValue ==
  \A c \in TypedCalls :
    ElementOf(c).type = "*bigFloat" /\ Len(ElementOf(c).mant) <= ExactDigits =>
      /\ IsJSONNumber(MarshalJSON(ElementOf(c)))
      /\ Denotes(MarshalJSON(ElementOf(c))) = Denotes(ValueOf(c))

\* the part of C8 that holds: the text of every finite stored decimal denotes
\* the value of the input
FiniteDecimalRoundTrip ==
  \A c \in TypedCalls :
    ElementOf(c).type = "*bigFloat" /\ ElementOf(c).form # "inf"
       /\ Len(ElementOf(c).mant) <= ExactDigits =>
      /\ IsJSONNumber(MarshalJSON(ElementOf(c)))
      /\ Denotes(MarshalJSON(ElementOf(c))) = Denotes(ValueOf(c))

\* -------------------------------------------------------------------- C2
\* the elements typedValues.Add is to store for a sequence of raw values
Coerced(vs) == [n \in 1..Len(vs) |-> Coerce(vs[n])]

\* C2: after any sequence of Add calls on an empty typed recorder, every key
\* holds the coerced values of exactly the calls made with it, in call order;
\* a key added once holds a one-element sequence.
C2_KeyHoldsCallsInOrder ==
  \A i \in 1..Len(colls) :
    colls[i].rec = "typedValues" =>
      /\ DOMAIN colls[i].m = KeysOf(adds[i])
      /\ \A k \in DOMAIN colls[i].m : colls[i].m[k] = Coerced(ValuesFor(adds[i], k))

\* one key was added twice with different values, another once
C2_Witness ==
  \E i \in 1..Len(colls) :
    /\ colls[i].rec = "typedValues"
    /\ \E k \in DOMAIN colls[i].m :
         Len(colls[i].m[k]) = 2 /\ colls[i].m[k][1] # colls[i].m[k][2]

\* -------------------------------------------------------------------- C3
\* C3: Add accepts every key and value, the empty ones too, and each call
\* grows the number of stored elements by exactly one.
C3_OneElementPerCall ==
  /\ TotalStored(colls) = SumLen(adds)
  /\ \A i \in 1..Len(colls) : KeysOf(adds[i]) \subseteq DOMAIN colls[i].m

\* the empty key was added with the empty value, in a typed recorder that
\* holds two elements
C3_Witness ==
  \E i \in 1..Len(colls) :
    /\ colls[i].rec = "typedValues"
    /\ \E p \in 1..Len(adds[i]) : adds[i][p] = <<(<<>>), (<<>>)>>
    /\ Len(adds[i]) = 2
    /\ TotalStored(<<colls[i]>>) = 2

\* -------------------------------------------------------------------- C6
\* C6: raw mode is selected exactly when -r is set; for the same calls the
\* raw and the typed recorder hold the same keys and sequences of the same
\* length, the raw one the value strings unchanged and the typed one their
\* coercions, position by position.
C6_RawAndTypedSameStructure ==
  \A i \in 1..Len(colls) :
    LET typed == Replay(newTypedValues, adds[i]).m
        rawm == Replay(newRawValues, adds[i]).m
    IN /\ colls[i].rec = (IF raw THEN "ini.Values" ELSE "typedValues")
       /\ colls[i].m = (IF raw THEN rawm ELSE typed)
       /\ DOMAIN rawm = DOMAIN typed
       /\ \A k \in DOMAIN rawm :
            /\ Len(rawm[k]) = Len(typed[k])
            /\ \A n \in 1..Len(rawm[k]) :
                 /\ rawm[k][n] = [type |-> "string", val |-> ValuesFor(adds[i], k)[n]]
                 /\ typed[k][n] = Coerce(rawm[k][n].val)

\* with -r, a value the typed recorder would coerce to an integer is held
\* as its text, after another value under the same key
C6_Witness ==
  /\ raw
  /\ \E i \in 1..Len(colls) : \E k \in DOMAIN colls[i].m :
       /\ Len(colls[i].m[k]) = 2
       /\ colls[i].m[k][2] = [type |-> "string", val |-> <<"7">>]
       /\ Coerce(<<"7">>).type = "*big.Int"

\* -------------------------------------------------------------------- C7
\* C7: the recorders are append-only: in every step every recorder keeps its
\* keys, every key's sequence is a prefix of its new one, and an Add leaves
\* the sequences of the other keys as they were.
C7_AppendOnly ==
  [][ /\ Len(colls') >= Len(colls)
      /\ \A i \in 1..Len(colls) :
           /\ DOMAIN colls[i].m \subseteq DOMAIN colls'[i].m
           /\ \A k \in DOMAIN colls[i].m : IsPrefix(colls[i].m[k], colls'[i].m[k])
           /\ \A k \in Keys :
                (Len(adds'[i]) > Len(adds[i]) /\ k # adds'[i][Len(adds'[i])][1])
                  => Recorded(colls'[i].m, k) = Recorded(colls[i].m, k)
    ]_vars

\* a recorder holds two different elements under one key and an element
\* under another key
C7_Witness ==
  \E i \in 1..Len(colls) :
    /\ Cardinality(DOMAIN colls[i].m) = 2
    /\ \E k \in DOMAIN colls[i].m :
         Len(colls[i].m[k]) = 2 /\ colls[i].m[k][1] # colls[i].m[k][2]

\* -------------------------------------------------------------------- C9
\* C9: with -m, main emits exactly one document, only after every path was
\* read; it is encoded from the one recorder, never reset, which holds the
\* values of all paths in argument order; a failed read ends the program
\* with no document emitted.
C9_MergeOneDocument ==
  merge =>
    /\ Len(colls) = 1
    /\ colls[1] = Replay(newValues, Flatten(calls))
    /\ Len(out) <= 1
    /\ out # <<>> => pc = "done" /\ idx = nargs /\ out[1].doc = colls[1].m
    /\ pc = "fatalParse" => out = <<>>
    /\ pc \in {"done", "fatalFinal"} => Len(out) = 1

\* the part of C9 that holds: at most one document, of the one recorder, and
\* exactly one when the final Encode succeeds
MergeAtMostOneDocument ==
  merge =>
    /\ Len(colls) = 1
    /\ colls[1] = Replay(newValues, Flatten(calls))
    /\ Len(out) <= 1
    /\ out # <<>> => pc = "done" /\ idx = nargs /\ out[1].doc = colls[1].m
    /\ pc = "fatalParse" => out = <<>>
    /\ pc = "done" => Len(out) = 1
    /\ pc = "fatalFinal" => out = <<>> /\ ~EncodeOk(colls[1])

\* ------------------------------------------------------------------- C10
\* C10: without -m, the i-th document is the encoding of the i-th recorder,
\* which holds exactly the values of the i-th path; each path's recorder is
\* encoded once, in order; a fresh empty recorder replaces an encoded one
\* (the one made after the last path stays empty and is never encoded); and
\* when the read or the Encode of path i fails, exactly the documents of the
\* paths before it have been emitted.
C10_OneDocumentPerFile ==
  ~merge =>
    /\ \A j \in 1..Len(out) :
         /\ out[j].coll = j
         /\ out[j].doc = Replay(newValues, calls[j]).m
         /\ out[j].doc = colls[j].m
    /\ encs = [j \in 1..Len(encs) |-> j]
    /\ Len(encs) \in {Len(out), Len(out) + 1}
    /\ pc \in {"read", "encode", "fatalParse"} => Len(out) = idx - 1
    /\ pc = "fatalEncode" => Len(out) = idx - 1 /\ Len(encs) = idx
    /\ pc = "read" => values = Replay(newValues, calls[idx])
    /\ pc = "done" => Len(out) = nargs /\ Len(encs) = nargs /\ values.m = <<>>

\* two documents were emitted, each path having recorded a value
C10_Witness ==
  /\ ~merge
  /\ Len(out) = 2
  /\ calls[1] # <<>> /\ calls[2] # <<>>
  /\ out[1].doc # out[2].doc

====
